---------------------------- MODULE Spec2Model ----------------------------
(***************************************************************************)
(* Bank customer analytics: the batch exporter (export_views.py) and the   *)
(* Streamlit dashboard (dashboard.py) over the views of bank.db.           *)
(*                                                                         *)
(* The environment is the file system (bank.db, the results/ folder) and   *)
(* the schema of bank.db (which of the eleven views exist).  Exceptions    *)
(* are records [cls, cause]: cls is the Python class the except clauses    *)
(* dispatch on, cause is what went wrong.                                  *)
(***************************************************************************)
EXTENDS Integers, Sequences, FiniteSets, TLC

\* ------------------------------------------------------------- bounds
\* script runs (first run + reruns) of one dashboard session
MaxRuns == 3
\* views missing or malformed in the initial database of a dashboard session
MaxAbsent == 1
\* transient faults (I/O error while fetching, CSV write error) in one export
MaxFaults == 1

\* ------------------------------------------------------------ catalog
VIEWS ==
  << "churn_by_branch", "churn_by_account_type", "income_band_churn",
     "avg_balance_by_branch", "avg_balance_by_account_type",
     "balance_by_tenure", "account_type_distribution",
     "branch_distribution", "high_value_customers", "overall_kpis",
     "branch_performance" >>

ViewSet == { VIEWS[i] : i \in 1..Len(VIEWS) }

VARIABLES
  \* environment
  dbFile,        \* bank.db: "absent" | "present" | "unreadable"
  views,         \* schema of bank.db: view -> "ok" | "absent" | "malformed"
  kpi,           \* the row of overall_kpis
  wraps,         \* the installed pandas wraps driver errors raised by execute
  resultsDir,    \* results/ exists
  faultsLeft,    \* transient faults the environment may still inject
  \* export_views.py
  epc,           \* "start" | "loop" | "aborted" | "connect_failed" | "done"
  edb0,          \* bank.db as main() found it
  idx,           \* position of the for loop in VIEWS
  conn,          \* main's connection: "none" | "open" | "closed"
  success_count,
  out,           \* the lines printed
  written,       \* CSV files written
  returned,      \* what export_view_to_csv returned, per attempted view
  cause,         \* what went wrong, per attempted view ("none" if nothing)
  \* dashboard.py
  pc,            \* position of the script
  runs,          \* script runs started in this session
  selected,      \* the selectbox's value (a view name)
  db0,           \* bank.db as the current run found it
  cache,         \* st.cache_data of load_view: view -> "miss" or a frame
  queries,       \* SELECTs issued, per view
  connects,      \* sqlite3.connect calls of load_view, per view
  served,        \* views that load_view answered from the cache
  failed,        \* views whose load caught an exception and returned empty
  leaked,        \* connections load_view opened and returned without closing
  banners,       \* st.error / st.info elements shown by the current run
  rendered,      \* panels shown by the current run
  metrics,       \* the four st.metric values of the current run
  footer,        \* the footer was rendered by the current run
  handler        \* top-level except clause that ran: "none" or its name

envVars == << dbFile, views, kpi, wraps, resultsDir, faultsLeft >>
expVars == << epc, edb0, idx, conn, success_count, out, written, returned, cause >>
dashVars == << pc, runs, selected, db0, cache, queries, connects, served,
               failed, leaked,
               banners, rendered, metrics, footer, handler >>
vars == << envVars, expVars, dashVars >>

\* --------------------------------------------------------- exceptions
NoException == [cls |-> "none", cause |-> "none"]

\* SELECT * FROM <absent view>: sqlite3 raises OperationalError("no such
\* table"); pandas.io.sql re-raises what cursor.execute raised as its own
\* DatabaseError, so the class the caller sees depends on the installed pandas.
NoSuchView(w) ==
  [cls |-> IF w THEN "DatabaseError" ELSE "OperationalError",
   cause |-> "no_such_view"]

\* any other sqlite3.OperationalError, e.g. "disk I/O error" while fetching
IoError == [cls |-> "OperationalError", cause |-> "io_error"]
\* DataFrame.to_csv cannot write the file
WriteError == [cls |-> "OSError", cause |-> "write_fault"]
\* sqlite3.connect cannot open bank.db
OpenError == [cls |-> "OperationalError", cause |-> "unable_to_open"]
\* a chart or a column selection names a column the frame does not have
ShapeError == [cls |-> "KeyError", cause |-> "missing_column"]

\* sqlite3.connect(DB_FILE) under the default flags creates the file when it
\* is absent: the new database is empty (no views).
ConnectFile(f) == IF f = "absent" THEN "present" ELSE f
ConnectViews(f, vs) == IF f = "absent" THEN [v \in ViewSet |-> "absent"] ELSE vs

\* ===================================================== export_views.py
Line(k, v, m, n) == [kind |-> k, view |-> v, msg |-> m, n |-> n]

\* the pre-check answering that bank.db exists whatever the file system says
db_exists_always(f) == TRUE

db_exists(f) == f # "absent"

\* pd.read_sql_query(query, conn) followed by df.to_csv(csv_path): the
\* exception the try block of export_view_to_csv raises, if any
ExportFault(vs, w, v, inj) ==
  IF vs[v] = "absent" THEN NoSuchView(w)
  ELSE IF inj = "io_error" THEN IoError
  ELSE IF inj = "write_fault" THEN WriteError
  ELSE NoException

export_view_to_csv(vs, w, v, inj) ==
  LET e == ExportFault(vs, w, v, inj) IN
  IF e.cls = "none"
    THEN [ret |-> TRUE, wrote |-> TRUE, cause |-> "none",
          lines |-> << Line("ok", v, "", 0) >>]
  ELSE IF e.cls = "OperationalError"
    THEN [ret |-> FALSE, wrote |-> FALSE, cause |-> e.cause,
          lines |-> << Line("view_does_not_exist", v, "", 0),
                       Line("hint_run_views_sql", v, "", 0) >>]
  ELSE [ret |-> FALSE, wrote |-> FALSE, cause |-> e.cause,
        lines |-> << Line("error", v, e.cause, 0) >>]

count_success(c, ret) == IF ret THEN c + 1 ELSE c

\* the loop giving up at the first view that fails
next_view_abort(i, ret) == IF ret THEN i + 1 ELSE Len(VIEWS) + 1

\* for view in VIEWS: the next position, whatever the call returned
next_view(i, ret) == i + 1

Injectable == IF faultsLeft > 0 THEN {"none", "io_error", "write_fault"} ELSE {"none"}

\* main(), lines 72-95: the pre-check, the results folder, the connection
MainStart ==
  /\ epc = "start"
  /\ edb0' = dbFile
  /\ IF ~db_exists(dbFile)
       THEN /\ out' = << Line("fatal_db_not_found", "", "", 0),
                         Line("hint_db_in_cwd", "", "", 0) >>
            /\ epc' = "aborted"
            /\ UNCHANGED << resultsDir, conn, idx >>
       ELSE /\ resultsDir' = TRUE
            /\ IF dbFile = "unreadable"
                 THEN /\ out' = << Line("results_ready", "", "", 0),
                                   Line("connect_error", "", OpenError.cause, 0) >>
                      /\ epc' = "connect_failed"
                      /\ UNCHANGED << conn, idx >>
                 ELSE /\ out' = << Line("results_ready", "", "", 0),
                                   Line("connected", "", "", 0) >>
                      /\ conn' = "open"
                      /\ idx' = 1
                      /\ epc' = "loop"
  /\ dbFile' = IF epc' = "loop" THEN ConnectFile(dbFile) ELSE dbFile
  /\ views' = IF epc' = "loop" THEN ConnectViews(dbFile, views) ELSE views
  /\ UNCHANGED << kpi, wraps, faultsLeft,
                  success_count, written, returned, cause >>
  /\ UNCHANGED dashVars

\* one iteration of the for loop, lines 99-101
ExportStep ==
  /\ epc = "loop"
  /\ idx <= Len(VIEWS)
  /\ \E inj \in Injectable :
       LET v == VIEWS[idx]
           r == export_view_to_csv(views, wraps, v, inj)
       IN /\ faultsLeft' = IF inj = "none" \/ views[v] = "absent"
                             THEN faultsLeft ELSE faultsLeft - 1
          /\ out' = out \o r.lines
          /\ written' = IF r.wrote THEN written \cup {v} ELSE written
          /\ returned' = Append(returned, r.ret)
          /\ cause' = Append(cause, r.cause)
          /\ success_count' = count_success(success_count, r.ret)
          /\ idx' = next_view(idx, r.ret)
  /\ UNCHANGED << dbFile, views, kpi, wraps, resultsDir, epc, edb0, conn >>
  /\ UNCHANGED dashVars

\* lines 103-110: close the connection, print the summary
MainFinish ==
  /\ epc = "loop"
  /\ idx > Len(VIEWS)
  /\ conn' = "closed"
  /\ out' = Append(out, Line("summary", "", "", success_count))
  /\ epc' = "done"
  /\ UNCHANGED << edb0, idx, success_count, written, returned, cause >>
  /\ UNCHANGED envVars
  /\ UNCHANGED dashVars

NextExport == MainStart \/ ExportStep \/ MainFinish


\* ======================================================== dashboard.py
\* ---- number formatting of the KPI strip.  A float of the KPI row is held
\* exactly, as a count of quarters (x = q/4 is a binary64 value); format()
\* rounds the exact value to the requested decimals, ties to even.
Digit(d) == << "0", "1", "2", "3", "4", "5", "6", "7", "8", "9" >>[d + 1]

RECURSIVE Dec(_)
Dec(n) == IF n < 10 THEN Digit(n) ELSE Dec(n \div 10) \o Digit(n % 10)

Pad3(n) == Digit(n \div 100) \o Digit((n \div 10) % 10) \o Digit(n % 10)

\* the ',' option: groups of three digits
RECURSIVE Grouped(_)
Grouped(n) ==
  IF n < 1000 THEN Dec(n) ELSE Grouped(n \div 1000) \o "," \o Pad3(n % 1000)

\* rounding with ties away from zero
RoundHalfUp(num, den) == (2 * num + den) \div (2 * den)

\* num/den rounded to an integer the way float.__format__ rounds
RoundFixed(num, den) ==
  LET k == num \div den
      r == num % den
  IN IF 2 * r > den THEN k + 1
     ELSE IF 2 * r = den THEN k + (k % 2)
     ELSE k

\* f"{total_customers:,}"
FormatCount(n) == Grouped(n)
\* f"{churn_rate:.1f}%"
FormatPct(q) ==
  LET t == RoundFixed(q * 10, 4)
  IN Dec(t \div 10) \o "." \o Digit(t % 10) \o "%"
\* f"${avg_balance:,.2f}"
FormatMoney2(q) ==
  LET t == RoundFixed(q * 100, 4)
  IN "$" \o Grouped(t \div 100) \o "." \o Digit((t \div 10) % 10) \o Digit(t % 10)
\* f"${total_balance:,.0f}"
FormatMoney0(q) == "$" \o Grouped(RoundFixed(q, 4))

KpiStripValues(k) ==
  << FormatCount(k.total_customers), FormatPct(k.overall_churn_rate_pct),
     FormatMoney2(k.avg_balance), FormatMoney0(k.total_balance) >>

\* ---- load_view
Banner(l, k, v) == [level |-> l, kind |-> k, view |-> v]

\* the session as load_view and the panels read and change it
Session ==
  [dbFile |-> dbFile, views |-> views, cache |-> cache, queries |-> queries,
   connects |-> connects, failed |-> failed,
   served |-> served, leaked |-> leaked, banners |-> banners,
   rendered |-> rendered, frame |-> "empty", raised |-> NoException]

\* a cache that stores nothing
memoize_nothing(c, v, frame) == c

\* a cache that stores only the frames of loads that succeeded
memoize_success_only(c, v, frame) ==
  IF frame = "empty" THEN c ELSE [c EXCEPT ![v] = frame]

\* @st.cache_data: the value load_view returned is stored under its argument
memoize(c, v, frame) == [c EXCEPT ![v] = frame]

\* a load_view that lets the exception out
on_load_error_reraise(s, v, e) == [s EXCEPT !.raised = e]

\* except Exception as e: st.error(...); return pd.DataFrame()
on_load_error(s, v, e) ==
  [s EXCEPT !.banners = Append(@, Banner("error", "error_loading", v)),
            !.failed = @ \cup {v},
            !.frame = "empty"]

\* a frame with the columns the panels name, or with other columns
FrameOf(vs, v) == IF vs[v] = "ok" THEN "rows" ELSE "odd"

\* the body of load_view, run on a cache miss
load_view_body(s, v) ==
  IF s.dbFile = "unreadable"
    THEN on_load_error([s EXCEPT !.connects[v] = @ + 1], v, OpenError)
  ELSE
    LET f == ConnectFile(s.dbFile)
        vs == ConnectViews(s.dbFile, s.views)
        opened == [s EXCEPT !.dbFile = f, !.views = vs,
                            !.connects[v] = @ + 1, !.queries[v] = @ + 1]
    IN IF vs[v] = "absent"
         \* read_sql_query raises: conn.close() on line 29 is not reached
         THEN on_load_error([opened EXCEPT !.leaked = @ + 1], v, NoSuchView(wraps))
         ELSE [opened EXCEPT !.frame = FrameOf(vs, v)]

\* a cache hit returns the stored frame and replays the elements the
\* stored call showed (the st.error of a failed load)
load_view(s, v) ==
  IF s.cache[v] # "miss"
    THEN [s EXCEPT !.frame = s.cache[v],
                   !.served = @ \cup {v},
                   !.banners = IF s.cache[v] = "empty"
                                 THEN Append(@, Banner("error", "error_loading", v))
                                 ELSE @]
    ELSE LET r == load_view_body(s, v)
         IN IF r.raised.cls = "none"
              THEN [r EXCEPT !.cache = memoize(@, v, r.frame)]
              ELSE r

\* ---- the panels
Panel(k, v) == [kind |-> k, view |-> v]
Block(v, kinds) == [view |-> v, kinds |-> kinds]

\* kinds that name columns of the frame
NamesColumns(k) == k \in {"chart", "columns_table"}

RECURSIVE RenderAll(_, _, _)
RenderAll(s, v, kinds) ==
  IF kinds = << >> \/ s.raised.cls # "none" THEN s
  ELSE IF NamesColumns(Head(kinds)) /\ s.frame = "odd"
    THEN [s EXCEPT !.raised = ShapeError]
  ELSE RenderAll([s EXCEPT !.rendered = @ \cup {Panel(Head(kinds), v)}],
                 v, Tail(kinds))

\* df = load_view(view); if not df.empty: <panels>
RunBlock(s, b) ==
  LET r == load_view(s, b.view)
  IN IF r.raised.cls # "none" \/ r.frame = "empty" THEN r
     ELSE RenderAll(r, b.view, b.kinds)

RECURSIVE RunBlocks(_, _)
RunBlocks(s, bs) ==
  IF bs = << >> \/ s.raised.cls # "none" THEN s
  ELSE RunBlocks(RunBlock(s, Head(bs)), Tail(bs))

Tab1Blocks == << Block("churn_by_branch", << "chart" >>),
                 Block("churn_by_account_type", << "chart" >>),
                 Block("income_band_churn", << "chart" >>) >>
Tab2Blocks == << Block("avg_balance_by_branch", << "chart" >>),
                 Block("avg_balance_by_account_type", << "chart" >>),
                 Block("balance_by_tenure", << "chart" >>) >>
Tab3Blocks == << Block("account_type_distribution", << "chart" >>),
                 Block("branch_distribution", << "chart" >>),
                 Block("high_value_customers", << "columns_table" >>) >>
Tab4Blocks == << Block("branch_performance", << "chart", "table" >>) >>
Tab5Blocks(sel) == << Block(sel, << "data_table", "download" >>) >>

\* the values of view_options
view_options == ViewSet

\* the top-level except clauses, lines 335-342
TopLevelExcept(e) ==
  IF e.cls = "OperationalError"
    THEN [name |-> "operational",
          banners |-> << Banner("error", "database_error", ""),
                         Banner("info", "run_views_sql", "") >>]
  ELSE IF e.cls = "FileNotFoundError"
    THEN [name |-> "file_not_found",
          banners |-> << Banner("error", "db_file_not_found", ""),
                         Banner("info", "db_in_cwd", "") >>]
  ELSE [name |-> "generic",
        banners |-> << Banner("error", "an_error_occurred", "") >>]

\* what a step of the script leaves behind: the session s it produced, then
\* either the next position or the except clause of the exception raised
Commit(s, next) ==
  /\ dbFile' = s.dbFile
  /\ views' = s.views
  /\ cache' = s.cache
  /\ queries' = s.queries
  /\ connects' = s.connects
  /\ served' = s.served
  /\ failed' = s.failed
  /\ leaked' = s.leaked
  /\ rendered' = s.rendered
  /\ IF s.raised.cls = "none"
       THEN /\ banners' = s.banners
            /\ handler' = handler
            /\ pc' = next
       ELSE /\ banners' = s.banners \o TopLevelExcept(s.raised).banners
            /\ handler' = TopLevelExcept(s.raised).name
            /\ pc' = "failed"

Idle == pc \in {"idle", "done", "stopped", "failed"}

\* the script starts: the first run of the session, or a rerun after the
\* user picked a view in the selectbox
StartRun ==
  /\ Idle
  /\ runs < MaxRuns
  /\ runs' = runs + 1
  /\ IF runs = 0
       THEN selected' = VIEWS[1]
       ELSE \E sel \in view_options : selected' = sel
  /\ db0' = dbFile
  /\ banners' = << >>
  /\ rendered' = {}
  /\ metrics' = << >>
  /\ footer' = FALSE
  /\ handler' = "none"
  /\ pc' = "kpis"
  /\ UNCHANGED << cache, queries, connects, served, failed, leaked >>
  /\ UNCHANGED envVars
  /\ UNCHANGED expVars

\* lines 45-49: the KPI view and its guard; st.stop() ends the run (its
\* exception is not an Exception, so no except clause sees it)
LoadKpis ==
  /\ pc = "kpis"
  /\ LET r == load_view(Session, "overall_kpis")
     IN IF r.raised.cls = "none" /\ r.frame = "empty"
          THEN Commit([r EXCEPT !.banners =
                         Append(@, Banner("error", "no_data_found", ""))],
                      "stopped")
          ELSE Commit(r, "strip")
  /\ UNCHANGED << runs, selected, db0, metrics, footer >>
  /\ UNCHANGED << kpi, wraps, resultsDir, faultsLeft >>
  /\ UNCHANGED expVars

\* lines 52-88: the four metrics
KpiStrip ==
  /\ pc = "strip"
  /\ IF cache["overall_kpis"] = "odd"
       THEN /\ Commit([Session EXCEPT !.raised = ShapeError], "tab1")
            /\ metrics' = metrics
       ELSE /\ Commit(Session, "tab1")
            /\ metrics' = KpiStripValues(kpi)
  /\ UNCHANGED << runs, selected, db0, footer >>
  /\ UNCHANGED << kpi, wraps, resultsDir, faultsLeft >>
  /\ UNCHANGED expVars

\* a tab: its blocks in order, up to the first exception
Section(blocks, next) ==
  /\ Commit(RunBlocks(Session, blocks), next)
  /\ UNCHANGED << runs, selected, db0, metrics, footer >>
  /\ UNCHANGED << kpi, wraps, resultsDir, faultsLeft >>
  /\ UNCHANGED expVars

Tab1 ==
  /\ pc = "tab1"
  /\ Section(Tab1Blocks, "tab2")

Tab2 ==
  /\ pc = "tab2"
  /\ Section(Tab2Blocks, "tab3")

Tab3 ==
  /\ pc = "tab3"
  /\ Section(Tab3Blocks, "tab4")

Tab4 ==
  /\ pc = "tab4"
  /\ Section(Tab4Blocks, "tab5")

Tab5 ==
  /\ pc = "tab5"
  /\ Section(Tab5Blocks(selected), "footer")

\* lines 326-333
Footer ==
  /\ pc = "footer"
  /\ footer' = TRUE
  /\ pc' = "done"
  /\ UNCHANGED << runs, selected, db0, cache, queries, connects, served, failed,
                  leaked,
                  banners, rendered, metrics, handler >>
  /\ UNCHANGED envVars
  /\ UNCHANGED expVars

\* the interpreter finalizes the connections load_view left open
Collect ==
  /\ leaked > 0
  /\ leaked' = 0
  /\ UNCHANGED << pc, runs, selected, db0, cache, queries, connects, served, failed,
                  banners, rendered, metrics, footer, handler >>
  /\ UNCHANGED envVars
  /\ UNCHANGED expVars

\* the remediation the diagnostics ask for, done while the script is not
\* running: bank.db is put in place and views.sql creates every view
Repair ==
  /\ Idle
  /\ dbFile # "present" \/ \E v \in ViewSet : views[v] # "ok"
  /\ dbFile' = "present"
  /\ views' = [v \in ViewSet |-> "ok"]
  /\ UNCHANGED << kpi, wraps, resultsDir, faultsLeft >>
  /\ UNCHANGED dashVars
  /\ UNCHANGED expVars

Script == StartRun \/ LoadKpis \/ KpiStrip \/ Tab1 \/ Tab2 \/ Tab3 \/ Tab4
            \/ Tab5 \/ Footer

NextDash == Script \/ Collect \/ Repair

\* ====================================================== specifications
ClaimedKpi ==
  [total_customers |-> 12345, overall_churn_rate_pct |-> 29,
   avg_balance |-> 4938, total_balance |-> 39506172]

AllOk == [v \in ViewSet |-> "ok"]
AllAbsent == [v \in ViewSet |-> "absent"]

\* schemas in which at most MaxAbsent views are absent or malformed
DamagedSchemas ==
  UNION { { [v \in ViewSet |-> IF v \in D THEN f[v] ELSE "ok"] :
              f \in [D -> {"absent", "malformed"}] } :
          D \in { X \in SUBSET ViewSet : Cardinality(X) <= MaxAbsent } }

InitExporter ==
  /\ epc = "start"
  /\ edb0 = "absent"
  /\ idx = 0
  /\ conn = "none"
  /\ success_count = 0
  /\ out = << >>
  /\ written = {}
  /\ returned = << >>
  /\ cause = << >>

InitDashboard ==
  /\ pc = "idle"
  /\ runs = 0
  /\ selected = VIEWS[1]
  /\ db0 = "absent"
  /\ cache = [v \in ViewSet |-> "miss"]
  /\ queries = [v \in ViewSet |-> 0]
  /\ connects = [v \in ViewSet |-> 0]
  /\ served = {}
  /\ failed = {}
  /\ leaked = 0
  /\ banners = << >>
  /\ rendered = {}
  /\ metrics = << >>
  /\ footer = FALSE
  /\ handler = "none"

\* a dashboard session over a database that is missing, unreadable, or
\* present with at most MaxAbsent damaged views
Init ==
  /\ \/ dbFile = "present" /\ views \in DamagedSchemas
     \/ dbFile = "absent" /\ views = AllAbsent
     \/ dbFile = "unreadable" /\ views = AllOk
  /\ kpi = ClaimedKpi
  /\ wraps \in BOOLEAN
  /\ resultsDir = FALSE
  /\ faultsLeft = 0
  /\ InitExporter
  /\ InitDashboard

Spec == Init /\ [][NextDash]_vars

\* one run of the exporter over a database with any subset of the views;
\* transient faults strike only databases with at most MaxAbsent views absent
InitExport ==
  /\ \/ /\ dbFile = "present"
        /\ \E missing \in SUBSET ViewSet :
             /\ views = [v \in ViewSet |-> IF v \in missing THEN "absent" ELSE "ok"]
             /\ faultsLeft = IF Cardinality(missing) <= MaxAbsent
                               THEN MaxFaults ELSE 0
     \/ dbFile = "absent" /\ views = AllAbsent /\ faultsLeft = 0
     \/ dbFile = "unreadable" /\ views = AllOk /\ faultsLeft = 0
  /\ kpi = ClaimedKpi
  /\ wraps \in BOOLEAN
  /\ resultsDir = FALSE
  /\ InitExporter
  /\ InitDashboard

SpecExport == InitExport /\ [][NextExport]_vars


\* the KPI strip over a range of KPI rows of a complete database
KpiRows ==
  [total_customers : {0, 999, 1000, 12345},
   overall_churn_rate_pct : {1, 29, 31, 400},
   avg_balance : {0, 3, 4938},
   total_balance : {2, 6, 3999, 39506172}]

InitKpi ==
  /\ dbFile = "present"
  /\ views = AllOk
  /\ kpi \in KpiRows
  /\ wraps \in BOOLEAN
  /\ resultsDir = FALSE
  /\ faultsLeft = 0
  /\ InitExporter
  /\ InitDashboard

NextKpi == StartRun \/ LoadKpis \/ KpiStrip

SpecKpi == InitKpi /\ [][NextKpi]_vars

\* the dashboard and the exporter run by the same user over the same
\* directory, nobody else touching bank.db
InitBoth ==
  /\ \/ dbFile = "present" /\ views = AllOk
     \/ dbFile = "absent" /\ views = AllAbsent
  /\ kpi = ClaimedKpi
  /\ wraps \in BOOLEAN
  /\ resultsDir = FALSE
  /\ faultsLeft = 0
  /\ InitExporter
  /\ InitDashboard

NextBoth == Script \/ Collect \/ NextExport

SpecBoth == InitBoth /\ [][NextBoth]_vars

\* ============================================================== claims
Absent == { v \in ViewSet : views[v] = "absent" }
Range(s) == { s[i] : i \in 1..Len(s) }
ErrorLines == { i \in 1..Len(out) :
                  out[i].kind \in {"fatal_db_not_found", "connect_error",
                                   "view_does_not_exist", "error"} }
ViewLines == SelectSeq(out, LAMBDA l : l.kind \in {"ok", "view_does_not_exist", "error"})
Succeeded == { i \in 1..Len(returned) : returned[i] }

\* C1: the exporter attempts all eleven views in catalog order whatever
\* fails; the summary count is the number of views export_view_to_csv
\* returned True for, which are the views with a CSV file; with exactly one
\* view absent from an otherwise healthy database that is 10/11, ten files,
\* and an error line naming the missing view.
C1_PerViewIsolation ==
  /\ epc \in {"loop", "done"} =>
       /\ Len(returned) = idx - 1
       /\ success_count = Cardinality(Succeeded)
       /\ written = { VIEWS[i] : i \in Succeeded }
       /\ [i \in 1..Len(ViewLines) |-> ViewLines[i].view] = SubSeq(VIEWS, 1, idx - 1)
  /\ epc = "done" =>
       /\ Len(returned) = Len(VIEWS)
       /\ out[Len(out)] = Line("summary", "", "", Cardinality(Succeeded))
       /\ \A m \in ViewSet :
            (Absent = {m} /\ Range(cause) \subseteq {"none", "no_such_view"}) =>
              /\ success_count = Len(VIEWS) - 1
              /\ written = ViewSet \ {m}
              /\ \E i \in ErrorLines : out[i].view = m
              /\ Cardinality(ErrorLines) = 1

C1_Witness ==
  /\ epc = "done"
  /\ Cardinality(Absent) = 1
  /\ Range(cause) \subseteq {"none", "no_such_view"}
  /\ out[Len(out)].n = Len(VIEWS) - 1
  /\ returned[Len(VIEWS)]

\* C2: when bank.db is absent as main() starts, main aborts with one fatal
\* diagnostic: no CSV file, no results folder, no connection, no view queried.
C2_PreCheck ==
  (epc # "start" /\ edb0 = "absent") =>
    /\ epc = "aborted"
    /\ Cardinality(ErrorLines) = 1
    /\ out[1].kind = "fatal_db_not_found"
    /\ written = {}
    /\ ~resultsDir
    /\ conn = "none"
    /\ returned = << >>
    /\ dbFile = "absent"

C2_Witness == epc = "aborted" /\ edb0 = "absent" /\ out # << >>

\* C7: export_view_to_csv prints the 'View does not exist' diagnostic if and
\* only if the fault is view-not-found, the generic diagnostic with the
\* fault's message for every other fault, and returns False on any fault.
C7_FaultClassification ==
  \A i \in 1..Len(cause) :
    /\ (cause[i] = "no_such_view") <=>
         (Line("view_does_not_exist", VIEWS[i], "", 0) \in Range(out))
    /\ (cause[i] \notin {"none", "no_such_view"}) =>
         (Line("error", VIEWS[i], cause[i], 0) \in Range(out))
    /\ (cause[i] # "none") => ~returned[i]

Finished == pc \in {"done", "stopped", "failed"}
ErrorBanners == { i \in 1..Len(banners) : banners[i].level = "error" }
AllBlocks(sel) == Tab1Blocks \o Tab2Blocks \o Tab3Blocks \o Tab4Blocks \o Tab5Blocks(sel)
AllPanels(sel) ==
  UNION { { Panel(k, b.view) : k \in Range(b.kinds) } : b \in Range(AllBlocks(sel)) }

\* C3: a run of the dashboard that finds bank.db absent shows exactly one
\* error banner and halts before any KPI metric, tab or panel.
C3_SingleFatalBanner ==
  (db0 = "absent" /\ runs >= 1 /\ Finished) =>
    /\ pc = "stopped"
    /\ Cardinality(ErrorBanners) = 1
    /\ metrics = << >>
    /\ rendered = {}
    /\ ~footer

\* C4: with exactly one view other than overall_kpis absent from a healthy
\* database, a finished run has reached the footer, no top-level except
\* clause ran, and the panels rendered are exactly those of the other views.
C4_PerPanelDegradation ==
  \A m \in ViewSet \ {"overall_kpis"} :
    (dbFile = "present" /\ views = [AllOk EXCEPT ![m] = "absent"]) =>
      /\ handler = "none"
      /\ pc \notin {"failed", "stopped"}
      /\ pc = "done" =>
           /\ footer
           /\ metrics = KpiStripValues(kpi)
           /\ rendered = { p \in AllPanels(selected) : p.view # m }

C4_Witness ==
  /\ pc = "done"
  /\ dbFile = "present"
  /\ Absent = {"branch_performance"}
  /\ \A v \in ViewSet \ Absent : views[v] = "ok"
  /\ footer
  /\ Cardinality(rendered) = Cardinality(AllPanels(selected)) - 2
  /\ Banner("error", "error_loading", "branch_performance") \in Range(banners)

\* C5: in one session load_view queries each view at most once and opens at
\* most one connection for it; later calls are served from the cache.
C5_Memoization ==
  \A v \in ViewSet :
    /\ queries[v] <= 1
    /\ connects[v] <= 1
    /\ v \in served => cache[v] # "miss"

C5_Witness ==
  /\ runs = MaxRuns
  /\ pc = "done"
  /\ selected = "high_value_customers"
  /\ selected \in served
  /\ \A v \in ViewSet : queries[v] = 1

\* C6 (as amended): the KPI row 12345, 7.25, 1234.5, 9876543 is shown as
\* "12,345", "7.2%", "$1,234.50", "$9,876,543": the percentage is rounded to
\* one decimal with a tie going to the even digit.
C6_KpiFormatting ==
  (kpi = ClaimedKpi /\ pc = "tab1") =>
    metrics = << "12,345", "7.2%", "$1,234.50", "$9,876,543" >>

C6_Witness == kpi = ClaimedKpi /\ pc = "tab1" /\ Len(metrics) = 4

\* C6 (as claimed): the same row is shown as "12,345", "7.3%", "$1,234.50",
\* "$9,876,543".
C6_AsClaimed ==
  (kpi = ClaimedKpi /\ pc = "tab1") =>
    metrics = << "12,345", "7.3%", "$1,234.50", "$9,876,543" >>

\* C8: the dashboard never creates, changes or deletes bank.db: while the
\* exporter has not started, a database file that a dashboard run found
\* absent is still absent, so the exporter would take its abort path.
C8_DashboardReadOnly ==
  (epc = "start" /\ runs >= 1 /\ db0 = "absent") => dbFile = "absent"

\* C9: every connection load_view opens is closed when it returns: no
\* connection of load_view is ever left open.
C9_ConnectionsClosed == leaked = 0

\* C10: a failed load is memoized: once load_view has caught an exception
\* for a view and returned the empty result, the view is never queried or
\* connected to again, the cache keeps the empty result, and no panel of the
\* view is rendered, whatever happens to the database; a finished run whose
\* KPI load failed, then or earlier, has stopped at the guard.
C10_FailureMemoized ==
  [][ \A v \in ViewSet :
        /\ v \in failed =>
             /\ cache[v] = "empty"
             /\ cache'[v] = "empty"
             /\ queries'[v] = queries[v]
             /\ connects'[v] = connects[v]
        /\ v \in failed' =>
             /\ \A p \in rendered' : p.view # v
             /\ (v = "overall_kpis" /\ pc' \in {"done", "stopped", "failed"})
                  => pc' = "stopped" ]_vars

C10_Witness ==
  /\ runs >= 2
  /\ pc = "done"
  /\ dbFile = "present"
  /\ views = AllOk
  /\ "churn_by_branch" \in failed
  /\ cache["churn_by_branch"] = "empty"
  /\ "churn_by_branch" \in served
  /\ selected = "churn_by_branch"

=============================================================================
